---- MODULE Spec2Model ----
(***************************************************************************)
(* Model of the node script factory (package node: CreateScript and its    *)
(* helpers), of the Script handle it returns, and of the helpers           *)
(* escapeJSON, sanitizeVariables and getDependencies.                      *)
(***************************************************************************)
EXTENDS Integers, Sequences, FiniteSets, TLC

(***************************************************************************)
(* Bounds                                                                  *)
(***************************************************************************)
\* longest string given to escapeJSON in SpecPure
MaxLen == 3
\* number of CreateScript calls (= directory names drawn) in Spec
MaxAttempts == 2

(***************************************************************************)
(* Text.  A string is a sequence of characters.  DQ, BS, NL and GT are the *)
(* characters encoding/json escapes; "a" stands for any other character.   *)
(***************************************************************************)
DQ == "\""
BS == "\\"
NL == "\n"
GT == ">"
Chars == {"a", DQ, BS, NL, GT}

\* one character as json.Marshal writes it inside a string literal
EscapeChar(ch) ==
    CASE ch = DQ -> <<BS, DQ>>
      [] ch = BS -> <<BS, BS>>
      [] ch = NL -> <<BS, "n">>
      [] ch = GT -> <<BS, "u003e">>
      [] OTHER   -> <<ch>>

RECURSIVE EscapeChars(_)
EscapeChars(s) ==
    IF s = <<>> THEN <<>> ELSE EscapeChar(Head(s)) \o EscapeChars(Tail(s))

\* json.Marshal of a Go string: the escaped body between two double quotes
Marshal(s) == <<DQ>> \o EscapeChars(s) \o <<DQ>>

RECURSIVE TrimLeft(_, _)
TrimLeft(s, cutset) ==
    IF s # <<>> /\ Head(s) \in cutset THEN TrimLeft(Tail(s), cutset) ELSE s

RECURSIVE TrimRight(_, _)
TrimRight(s, cutset) ==
    IF s # <<>> /\ s[Len(s)] \in cutset
    THEN TrimRight(SubSeq(s, 1, Len(s) - 1), cutset)
    ELSE s

\* strings.Trim: every leading and every trailing character of the cutset goes
Trim(s, cutset) == TrimRight(TrimLeft(s, cutset), cutset)

\* escapeJSON applied to a string value
escapeJSON(value) == Trim(Marshal(value), {DQ})

\* Reading text back as the body of a JSON string literal.
Invalid == [ok |-> FALSE, val |-> <<>>]

RECURSIVE Decode(_)
Decode(body) ==
    IF body = <<>> THEN [ok |-> TRUE, val |-> <<>>]
    ELSE IF Head(body) = DQ THEN Invalid
    ELSE IF Head(body) = BS THEN
        IF Len(body) < 2 THEN Invalid
        ELSE LET e == body[2]
                 rest == Decode(SubSeq(body, 3, Len(body)))
                 ch == CASE e = DQ -> DQ
                         [] e = BS -> BS
                         [] e = "n" -> NL
                         [] e = "u003e" -> GT
                         [] OTHER -> "?"
             IN IF ch = "?" \/ ~rest.ok THEN Invalid
                ELSE [ok |-> TRUE, val |-> <<ch>> \o rest.val]
    ELSE LET rest == Decode(Tail(body))
         IN IF rest.ok THEN [ok |-> TRUE, val |-> <<Head(body)>> \o rest.val]
            ELSE Invalid

RECURSIVE StringsUpTo(_)
StringsUpTo(n) ==
    IF n = 0 THEN {<<>>}
    ELSE LET shorter == StringsUpTo(n - 1)
         IN shorter \cup {Append(s, ch) : s \in {t \in shorter : Len(t) = n - 1}, ch \in Chars}

(***************************************************************************)
(* Variable bags: a function from keys to values, a value given by its     *)
(* runtime kind.                                                           *)
(***************************************************************************)
Keys == {"k1", "k2"}
Kinds == {"null", "bool", "number", "string", "sequence", "mapping", "func"}
Bags == UNION {[ks -> Kinds] : ks \in SUBSET Keys}

\* reflect.TypeOf(nil) is the nil Type and calling Kind() on it panics;
\* otherwise the copy keeps every key whose kind is not Func.
sanitizeVariables(vars) ==
    IF \E k \in DOMAIN vars : vars[k] = "null"
    THEN [panic |-> TRUE, bag |-> <<>>]
    ELSE [panic |-> FALSE,
          bag |-> [k \in {x \in DOMAIN vars : vars[x] # "func"} |-> vars[k]]]

(***************************************************************************)
(* Executables                                                             *)
(***************************************************************************)
\* an Expression carries source text, a Package a package name
Expression(text) == [kind |-> "Expression", text |-> text, name |-> ""]
Package(name) == [kind |-> "Package", text |-> <<>>, name |-> name]
OtherExecutable == [kind |-> "Other", text |-> <<>>, name |-> ""]

NoError == "nil"

\* getDependencies with the Package case returning no package
getDependenciesNoPackage(executable) ==
    CASE executable.kind = "Expression" -> [list |-> <<>>, err |-> NoError]
      [] executable.kind = "Package" -> [list |-> <<>>, err |-> NoError]
      [] OTHER -> [list |-> <<>>, err |-> "unrecognized script executable"]

getDependencies(executable) ==
    CASE executable.kind = "Expression" -> [list |-> <<>>, err |-> NoError]
      [] executable.kind = "Package" -> [list |-> <<executable.name>>, err |-> NoError]
      [] OTHER -> [list |-> <<>>, err |-> "unrecognized script executable"]

(***************************************************************************)
(* The factory, the disk, the search path and the governed processes       *)
(***************************************************************************)
node == "node"
npm == "npm"
executableScriptName == "main.cjs"

\* Factory(): the fixed harness-support packages and their versions
packages == ("node-fetch" :> "2") @@ ("vm2" :> "3")

\* names a manifest may list besides the harness-support packages
ExternalPackages == {"left-pad", "extra"}

Callers == {"c1", "c2"}
Dirs == 1..MaxAttempts
Pids == 1..MaxAttempts
Events == {"e1", "e2"}
NoEvent == "none"

\* the literal text getExpression puts around an Expression
ExpressionPrefix ==
    <<NL, "module.exports = async (event) =", GT, " {", NL, "  let $ = event", NL,
      "  let _ = event", NL, "// expression start //", NL>>
ExpressionSuffix == <<NL, "// expression end //", NL, "}">>

\* inputs of CreateScript: executable, variables, includes
Input(e, v, i) == [executable |-> e, variables |-> v, includes |-> i]
PlainVariables == [k \in Keys |-> IF k = "k1" THEN "func" ELSE "number"]
NullVariables == [k \in {"k1"} |-> "null"]
CreateScriptInputs ==
    {Input(Expression(<<"a">>), PlainVariables, <<>>),
     Input(Expression(<<"a">>), NullVariables, <<>>),
     Input(Package("left-pad"), PlainVariables, << <<"a", DQ>> >>),
     Input(Package("vm2"), PlainVariables, <<>>),
     Input(OtherExecutable, PlainVariables, <<>>)}

RECURSIVE Join(_, _)
Join(elems, sep) ==
    IF elems = <<>> THEN <<>>
    ELSE IF Len(elems) = 1 THEN elems[1]
    ELSE elems[1] \o sep \o Join(Tail(elems), sep)

NoScriptFile ==
    [state |-> "none", Executable |-> <<>>, Includes |-> <<>>, Variables |-> <<>>]
NoDir ==
    [exists |-> FALSE, stale |-> FALSE, manifest |-> FALSE, deps |-> {},
     script |-> NoScriptFile]
StaleDir == [NoDir EXCEPT !.exists = TRUE, !.stale = TRUE]

NoProcess == [running |-> FALSE, dir |-> 0, req |-> NoEvent]
NoScript == [governor |-> 0, dir |-> 0]
NoCall ==
    [executable |-> OtherExecutable, variables |-> <<>>, includes |-> <<>>,
     dir |-> 0, dependencies |-> <<>>, expression |-> <<>>, open |-> {},
     err |-> <<>>, steps |-> <<>>, npmRuns |-> 0, npmArgs |-> <<>>, npmExit |-> "",
     opened |-> <<>>, main |-> "unread"]
NoResult == [code |-> <<>>, event |-> NoEvent, err |-> NoError]

\* the three helpers checked on their own (SpecPure)
PureIdle ==
    [fn |-> "none", str |-> <<>>, bag |-> <<>>, exe |-> OtherExecutable,
     done |-> FALSE, strOut |-> <<>>, bagOut |-> [panic |-> FALSE, bag |-> <<>>],
     depOut |-> [list |-> <<>>, err |-> NoError]]

\* EvaluateTemplateRequest as EventTemplateHandler holds it, with the locals of
\* the handler and the responses written with c.JSON
HttpIdle ==
    [pc |-> "idle", body |-> "ok", Object |-> "nil", Expression |-> "", Reformat |-> FALSE,
     result |-> "", format |-> "", err |-> NoError, engineCalled |-> FALSE,
     panicked |-> FALSE, responses |-> <<>>]

VARIABLES
    path,      \* executables resolvable on $PATH
    disk,      \* disk[d]: the temp directory named d
    procs,     \* procs[p]: the process with pid p
    pc,        \* pc[c]: where caller c is
    call,      \* call[c]: the locals of caller c's CreateScript call
    script,    \* script[c]: the *Script returned to caller c
    result,    \* result[c]: what the last run on c's script returned
    closeErr,  \* closeErr[c]: whether governor.Close returned an error
    nextDir,   \* directory names drawn so far + 1
    nextPid,   \* processes spawned so far + 1
    pure,      \* input and output of a helper applied on its own
    http       \* the request EventTemplateHandler is serving

vars == <<path, disk, procs, pc, call, script, result, closeErr, nextDir, nextPid, pure, http>>

Init ==
    /\ path \in SUBSET {node, npm}
    /\ \E stale \in {{}, {1}} :
          disk = [d \in Dirs |-> IF d \in stale THEN StaleDir ELSE NoDir]
    /\ procs = [p \in Pids |-> NoProcess]
    /\ pc = [c \in Callers |-> "idle"]
    /\ call = [c \in Callers |-> NoCall]
    /\ script = [c \in Callers |-> NoScript]
    /\ result = [c \in Callers |-> NoResult]
    /\ closeErr = [c \in Callers |-> FALSE]
    /\ nextDir = 1
    /\ nextPid = 1
    /\ pure = PureIdle
    /\ http = HttpIdle

\* a name generator that hands out the same name every time
NewV4Repeating == CHOOSE d \in Dirs : \A e \in Dirs : d <= e

\* uuid.NewV4(): a name no earlier call drew
NewV4 == nextDir

\* CreateScript returns: its arguments and working values go out of scope
Return(l) ==
    [l EXCEPT !.variables = <<>>, !.includes = <<>>, !.dependencies = <<>>,
              !.expression = <<>>]


\* return nil, err
Fail(c, e) ==
    /\ pc' = [pc EXCEPT ![c] = "failed"]
    /\ call' = [call EXCEPT ![c] = Return([@ EXCEPT !.err = e])]

Step(c, name, next) ==
    /\ pc' = [pc EXCEPT ![c] = next]
    /\ call' = [call EXCEPT ![c].steps = Append(@, name)]

\* the lookup with the npm check left out
LookPathNodeOnly ==
    IF node \notin path THEN <<"is not in $PATH", node>> ELSE <<>>

\* exec.LookPath(node), then exec.LookPath(npm): the error of the first one
\* that is missing, <<>> when both resolve
LookPath ==
    IF node \notin path THEN <<"is not in $PATH", node>>
    ELSE IF npm \notin path THEN <<"is not in $PATH", npm>>
    ELSE <<>>

\* the caller calls CreateScript(executable, variables, includes...):
\* both executables are looked up, then the directory name is drawn
Start(c) ==
    /\ pc[c] = "idle"
    /\ nextDir <= MaxAttempts
    /\ \E in \in CreateScriptInputs :
          LET l == [NoCall EXCEPT !.executable = in.executable,
                                  !.variables = in.variables,
                                  !.includes = in.includes]
          IN IF LookPath # <<>>
             THEN /\ pc' = [pc EXCEPT ![c] = "failed"]
                  /\ call' = [call EXCEPT ![c] = Return([l EXCEPT !.err = LookPath])]
                  /\ UNCHANGED nextDir
             ELSE /\ pc' = [pc EXCEPT ![c] = "purge"]
                  /\ call' = [call EXCEPT ![c] =
                                 [l EXCEPT !.dir = NewV4, !.steps = <<"lookPath">>]]
                  /\ nextDir' = nextDir + 1
    /\ UNCHANGED <<path, disk, procs, script, result, closeErr, nextPid, pure, http>>

\* a purge that reports success and removes nothing
PurgeKeeping(c) ==
    /\ pc[c] = "purge"
    /\ \E ok \in BOOLEAN :
          IF ok
          THEN /\ UNCHANGED disk
               /\ Step(c, "purge", "mkdir")
          ELSE /\ Fail(c, <<"purge temp dir">>)
               /\ UNCHANGED disk
    /\ UNCHANGED <<path, procs, script, result, closeErr, nextDir, nextPid, pure, http>>

\* os.RemoveAll(dir)
Purge(c) ==
    /\ pc[c] = "purge"
    /\ \E ok \in BOOLEAN :
          IF ok
          THEN /\ disk' = [disk EXCEPT ![call[c].dir] = NoDir]
               /\ Step(c, "purge", "mkdir")
          ELSE /\ Fail(c, <<"purge temp dir">>)
               /\ UNCHANGED disk
    /\ UNCHANGED <<path, procs, script, result, closeErr, nextDir, nextPid, pure, http>>

\* a directory creation that reports its failure under the purge's name
MkdirFailingAsPurge(c) ==
    /\ pc[c] = "mkdir"
    /\ \E ok \in BOOLEAN :
          IF ok
          THEN /\ disk' = [disk EXCEPT ![call[c].dir].exists = TRUE]
               /\ Step(c, "mkdir", "createPackageJSON")
          ELSE /\ Fail(c, <<"purge temp dir">>)
               /\ UNCHANGED disk
    /\ UNCHANGED <<path, procs, script, result, closeErr, nextDir, nextPid, pure, http>>

\* os.MkdirAll(dir, 0755)
Mkdir(c) ==
    /\ pc[c] = "mkdir"
    /\ \E ok \in BOOLEAN :
          IF ok
          THEN /\ disk' = [disk EXCEPT ![call[c].dir].exists = TRUE]
               /\ Step(c, "mkdir", "createPackageJSON")
          ELSE /\ Fail(c, <<"create temp dir">>)
               /\ UNCHANGED disk
    /\ UNCHANGED <<path, procs, script, result, closeErr, nextDir, nextPid, pure, http>>

\* createPackageJSON(dir): create the manifest, write "{}", close it
CreatePackageJSON(c) ==
    /\ pc[c] = "createPackageJSON"
    /\ \E outcome \in {"ok", "create fails", "write fails"} :
          CASE outcome = "ok" ->
                 /\ disk' = [disk EXCEPT ![call[c].dir].manifest = TRUE,
                                         ![call[c].dir].deps = {}]
                 /\ Step(c, "createPackageJSON", "getDependencies")
            [] outcome = "create fails" ->
                 /\ Fail(c, <<"create package.json", "create package.json">>)
                 /\ UNCHANGED disk
            [] outcome = "write fails" ->
                 /\ Fail(c, <<"create package.json", "write to package.json">>)
                 /\ disk' = [disk EXCEPT ![call[c].dir].manifest = TRUE]
    /\ UNCHANGED <<path, procs, script, result, closeErr, nextDir, nextPid, pure, http>>

\* dependencies, err := getDependencies(executable)
GetDependencies(c) ==
    /\ pc[c] = "getDependencies"
    /\ LET r == getDependencies(call[c].executable)
       IN IF r.err # NoError
          THEN Fail(c, <<"get dependencies", r.err>>)
          ELSE /\ pc' = [pc EXCEPT ![c] = "install"]
               /\ call' = [call EXCEPT ![c].dependencies = r.list,
                                       ![c].steps = Append(@, "getDependencies")]
    /\ UNCHANGED <<path, disk, procs, script, result, closeErr, nextDir, nextPid, pure, http>>

\* one argument of npm install: name@version, or the bare name
InstallArg(name) ==
    IF packages[name] # "" THEN <<name, "@", packages[name]>> ELSE <<name>>

\* the orders in which ranging over f.packages can yield its keys
PackageOrders ==
    {o \in [1..Cardinality(DOMAIN packages) -> DOMAIN packages] :
        \A i, j \in DOMAIN o : i # j => o[i] # o[j]}

\* an argument list without the harness-support packages
installArgsModulesOnly(order, modules) == <<"install">> \o modules

\* the argument list installNodeModules builds
installArgs(order, modules) ==
    <<"install">> \o [i \in DOMAIN order |-> InstallArg(order[i])] \o modules

\* what npm leaves in the manifest's dependencies after a successful install:
\* every package it was asked for, and possibly a further top-level entry
ManifestsAfterInstall(modules) ==
    LET asked == DOMAIN packages \cup {modules[i] : i \in DOMAIN modules}
    IN IF modules = <<>> THEN {asked} ELSE {asked, asked \cup {"extra"}}

\* f.installNodeModules(dir, dependencies): one npm run under a 2 minute timeout
Install(c) ==
    /\ pc[c] = "install"
    /\ \E order \in PackageOrders, exit \in {"ok", "non-zero exit", "timeout"} :
          LET args == installArgs(order, call[c].dependencies)
          IN IF exit = "ok"
             THEN /\ \E deps \in ManifestsAfterInstall(call[c].dependencies) :
                        disk' = [disk EXCEPT ![call[c].dir].deps = deps]
                  /\ pc' = [pc EXCEPT ![c] = "createScriptFile"]
                  /\ call' = [call EXCEPT ![c].npmRuns = @ + 1,
                                          ![c].npmArgs = args,
                                          ![c].npmExit = exit,
                                          ![c].steps = Append(@, "install")]
             ELSE /\ pc' = [pc EXCEPT ![c] = "failed"]
                  /\ call' = [call EXCEPT ![c] =
                                 Return([@ EXCEPT !.npmRuns = @ + 1,
                                                  !.npmArgs = args,
                                                  !.npmExit = exit,
                                                  !.err = <<"install node modules", exit>>])]
                  /\ UNCHANGED disk
    /\ UNCHANGED <<path, procs, script, result, closeErr, nextDir, nextPid, pure, http>>

\* scriptFile, err := os.Create(scriptPath)
CreateScriptFile(c) ==
    /\ pc[c] = "createScriptFile"
    /\ \E ok \in BOOLEAN :
          IF ok
          THEN /\ disk' = [disk EXCEPT ![call[c].dir].script.state = "empty"]
               /\ pc' = [pc EXCEPT ![c] = "getExpression"]
               /\ call' = [call EXCEPT ![c].open = @ \cup {executableScriptName},
                                       ![c].npmArgs = <<>>,
                                       ![c].steps = Append(@, "createScriptFile")]
          ELSE /\ pc' = [pc EXCEPT ![c] = "failed"]
               /\ call' = [call EXCEPT ![c] =
                              Return([@ EXCEPT !.npmArgs = <<>>,
                                               !.err = <<"create main script">>])]
               /\ UNCHANGED disk
    /\ UNCHANGED <<path, procs, script, result, closeErr, nextDir, nextPid, pure, http>>

\* a non-empty main field of an installed package's manifest
MainField == "index.js"

\* texts an installed package's entry-point file may hold
MainFileTexts == {<<"a", DQ>>}

GetExpressionOutcome(expression, err, panic, opened) ==
    [expression |-> expression, err |-> err, panic |-> panic, opened |-> opened,
     main |-> "unread"]

\* the outcome o, reached after the dependency's manifest gave the main field m
WithMain(o, m) == [o EXCEPT !.main = m]

\* getExpression without the test of the main field: an empty main is opened too
getExpressionOpeningEmptyMain(d, executable) ==
    CASE executable.kind = "Expression" ->
           {GetExpressionOutcome(ExpressionPrefix \o executable.text \o ExpressionSuffix,
                                 <<>>, FALSE, <<>>)}
      [] executable.kind = "Package" ->
           LET dependencies == d.deps \ DOMAIN packages
               first == <<"package.json">>
               second == Append(first, "node_modules/package.json")
               third == Append(second, "main file")
           IN {GetExpressionOutcome(<<>>, <<"read runtime package.json">>, FALSE, first)}
              \cup
              IF Cardinality(dependencies) > 1
              THEN {GetExpressionOutcome(<<>>, <<>>, FALSE, first)}
              ELSE IF dependencies = {}
              THEN {GetExpressionOutcome(<<>>, <<>>, TRUE, first)}
              ELSE {GetExpressionOutcome(<<>>, <<"read package.json main field">>, FALSE, second)}
                   \cup {WithMain(GetExpressionOutcome(<<>>, <<"open main file">>, FALSE, third), m) :
                            m \in {"", MainField}}
                   \cup {WithMain(GetExpressionOutcome(data, <<>>, FALSE, third), MainField) :
                            data \in MainFileTexts}
      [] OTHER ->
           {GetExpressionOutcome(<<>>, <<"unrecognized executable">>, FALSE, <<>>)}

\* f.getExpression(dir, executable): every outcome it can have on directory d.
\* err = <<>> is the nil error; errors.Wrapf(nil, ...) is nil.
getExpression(d, executable) ==
    CASE executable.kind = "Expression" ->
           {GetExpressionOutcome(ExpressionPrefix \o executable.text \o ExpressionSuffix,
                                 <<>>, FALSE, <<>>)}
      [] executable.kind = "Package" ->
           LET dependencies == d.deps \ DOMAIN packages
               first == <<"package.json">>
           IN {GetExpressionOutcome(<<>>, <<"read runtime package.json">>, FALSE, first)}
              \cup
              IF Cardinality(dependencies) > 1
              THEN {GetExpressionOutcome(<<>>, <<>>, FALSE, first)}
              ELSE IF dependencies = {}
              THEN {GetExpressionOutcome(<<>>, <<>>, TRUE, first)}
              ELSE LET packageName == CHOOSE n \in dependencies : TRUE
                       second == Append(first, "node_modules/package.json")
                       third == Append(second, "main file")
                   IN {GetExpressionOutcome(<<>>, <<"read package.json main field">>, FALSE, second),
                       WithMain(GetExpressionOutcome(<<>>, <<"package.json main is empty">>,
                                                     FALSE, second), ""),
                       WithMain(GetExpressionOutcome(<<>>, <<"open main file">>, FALSE, third),
                                MainField),
                       WithMain(GetExpressionOutcome(<<>>, <<"read main file">>, FALSE, third),
                                MainField)}
                      \cup {WithMain(GetExpressionOutcome(data, <<>>, FALSE, third), MainField) :
                               data \in MainFileTexts}
      [] OTHER ->
           {GetExpressionOutcome(<<>>, <<"unrecognized executable">>, FALSE, <<>>)}

\* expression, err := f.getExpression(dir, executable)
GetExpression(c) ==
    /\ pc[c] = "getExpression"
    /\ \E o \in getExpression(disk[call[c].dir], call[c].executable) :
          /\ pc' = [pc EXCEPT ![c] =
                       IF o.panic THEN "panicked"
                       ELSE IF o.err # <<>> THEN "failed" ELSE "render"]
          /\ call' = [call EXCEPT ![c] =
                         IF o.panic THEN [@ EXCEPT !.opened = o.opened, !.main = o.main]
                         ELSE IF o.err # <<>>
                         THEN Return([@ EXCEPT !.opened = o.opened, !.main = o.main,
                                               !.err = <<"get executable expression">> \o o.err])
                         ELSE [@ EXCEPT !.opened = o.opened, !.main = o.main,
                                        !.expression = o.expression,
                                        !.steps = Append(@, "getExpression")]]
    /\ UNCHANGED <<path, disk, procs, script, result, closeErr, nextDir, nextPid, pure, http>>

\* Render with the error of Execute dropped: the call goes on to spawn
RenderIgnoringError(c) ==
    /\ pc[c] = "render"
    /\ LET variables == sanitizeVariables(call[c].variables)
       IN IF variables.panic
          THEN /\ pc' = [pc EXCEPT ![c] = "panicked"]
               /\ UNCHANGED <<call, disk>>
          ELSE \E ok \in BOOLEAN :
                 /\ disk' = IF ok
                            THEN [disk EXCEPT ![call[c].dir].script =
                                     [state |-> "written",
                                      Executable |-> escapeJSON(call[c].expression),
                                      Includes |-> escapeJSON(Join(call[c].includes, <<NL, NL>>)),
                                      Variables |-> variables.bag]]
                            ELSE disk
                 /\ pc' = [pc EXCEPT ![c] = "govern"]
                 /\ call' = [call EXCEPT ![c].open = @ \ {executableScriptName},
                                         ![c].steps = Append(@, "render")]
    /\ UNCHANGED <<path, procs, script, result, closeErr, nextDir, nextPid, pure, http>>

\* scriptTemplate.Execute(scriptFile, ...), closeQuietly(scriptFile)
Render(c) ==
    /\ pc[c] = "render"
    /\ LET d == call[c].dir
           Executable == escapeJSON(call[c].expression)
           Includes == escapeJSON(Join(call[c].includes, <<NL, NL>>))
           variables == sanitizeVariables(call[c].variables)
       IN IF variables.panic
          THEN /\ pc' = [pc EXCEPT ![c] = "panicked"]
               /\ UNCHANGED <<call, disk>>
          ELSE \E ok \in BOOLEAN :
                 IF ok
                 THEN /\ disk' = [disk EXCEPT ![d].script =
                                     [state |-> "written", Executable |-> Executable,
                                      Includes |-> Includes, Variables |-> variables.bag]]
                      /\ pc' = [pc EXCEPT ![c] = "govern"]
                      /\ call' = [call EXCEPT ![c].open = @ \ {executableScriptName},
                                              ![c].steps = Append(@, "render")]
                 ELSE /\ pc' = [pc EXCEPT ![c] = "failed"]
                      /\ call' = [call EXCEPT ![c] =
                                     Return([@ EXCEPT !.open = @ \ {executableScriptName},
                                                      !.err = <<"execute script template">>])]
                      /\ UNCHANGED disk
    /\ UNCHANGED <<path, procs, script, result, closeErr, nextDir, nextPid, pure, http>>

\* governor, err := ipc.Govern(process); return &Script{governor, dir}, nil
Govern(c) ==
    /\ pc[c] = "govern"
    /\ \E ok \in BOOLEAN :
          IF ok
          THEN /\ procs' = [procs EXCEPT ![nextPid] =
                               [running |-> TRUE, dir |-> call[c].dir, req |-> NoEvent]]
               /\ nextPid' = nextPid + 1
               /\ script' = [script EXCEPT ![c] =
                                [governor |-> nextPid, dir |-> call[c].dir]]
               /\ pc' = [pc EXCEPT ![c] = "ready"]
               /\ call' = [call EXCEPT ![c] =
                              Return([@ EXCEPT !.steps = Append(@, "govern")])]
          ELSE /\ Fail(c, <<"govern process">>)
               /\ UNCHANGED <<procs, nextPid, script>>
    /\ UNCHANGED <<path, disk, result, closeErr, nextDir, pure, http>>

\* the caller takes note of a failed CreateScript, or of a disposed script
Ack(c) ==
    /\ pc[c] \in {"failed", "disposed"}
    /\ pc' = [pc EXCEPT ![c] = "idle"]
    /\ call' = [call EXCEPT ![c] = NoCall]
    /\ script' = [script EXCEPT ![c] = NoScript]
    /\ result' = [result EXCEPT ![c] = NoResult]
    /\ closeErr' = [closeErr EXCEPT ![c] = FALSE]
    /\ UNCHANGED <<path, disk, procs, nextDir, nextPid, pure, http>>

(***************************************************************************)
(* The Script handle: run and dispose                                      *)
(***************************************************************************)
\* what the process rooted at directory d answers to an event
Evaluate(d, event) ==
    [code |-> disk[d].script.Executable, event |-> event, err |-> NoError]

\* run(event): Governor.invoke sends the payload to the process
Invoke(c) ==
    /\ pc[c] = "ready"
    /\ procs[script[c].governor].running
    /\ \E event \in Events :
          /\ procs' = [procs EXCEPT ![script[c].governor].req = event]
          /\ result' = [result EXCEPT ![c] = [NoResult EXCEPT !.event = event]]
    /\ pc' = [pc EXCEPT ![c] = "invoking"]
    /\ UNCHANGED <<path, disk, call, script, closeErr, nextDir, nextPid, pure, http>>

\* the process answers and run returns the answer
Respond(c) ==
    /\ pc[c] = "invoking"
    /\ LET p == script[c].governor
       IN /\ procs' = [procs EXCEPT ![p].req = NoEvent]
          /\ result' = [result EXCEPT ![c] = Evaluate(procs[p].dir, procs[p].req)]
    /\ pc' = [pc EXCEPT ![c] = "ready"]
    /\ UNCHANGED <<path, disk, call, script, closeErr, nextDir, nextPid, pure, http>>

\* dispose, first half: Governor.close() ends the process, with or without error
Close(c) ==
    /\ pc[c] = "ready"
    /\ procs' = [procs EXCEPT ![script[c].governor].running = FALSE]
    /\ \E e \in BOOLEAN : closeErr' = [closeErr EXCEPT ![c] = e]
    /\ result' = [result EXCEPT ![c] = NoResult]
    /\ Step(c, "close", "closed")
    /\ UNCHANGED <<path, disk, script, nextDir, nextPid, pure, http>>

\* a dispose that gives up when Governor.close() returned an error
RemoveDirUnlessCloseFailed(c) ==
    /\ pc[c] = "closed"
    /\ disk' = IF closeErr[c] THEN disk ELSE [disk EXCEPT ![script[c].dir] = NoDir]
    /\ Step(c, "removeDir", "disposed")
    /\ UNCHANGED <<path, procs, script, result, closeErr, nextDir, nextPid, pure, http>>

\* dispose, second half: the provisioned directory is removed recursively
RemoveDir(c) ==
    /\ pc[c] = "closed"
    /\ disk' = [disk EXCEPT ![script[c].dir] = NoDir]
    /\ Step(c, "removeDir", "disposed")
    /\ UNCHANGED <<path, procs, script, result, closeErr, nextDir, nextPid, pure, http>>

Next ==
    \E c \in Callers :
       \/ Start(c)
       \/ Purge(c)
       \/ Mkdir(c)
       \/ CreatePackageJSON(c)
       \/ GetDependencies(c)
       \/ Install(c)
       \/ CreateScriptFile(c)
       \/ GetExpression(c)
       \/ Render(c)
       \/ Govern(c)
       \/ Ack(c)
       \/ Invoke(c)
       \/ Respond(c)
       \/ Close(c)
       \/ RemoveDir(c)

Spec == Init /\ [][Next]_vars

(***************************************************************************)
(* The helpers applied on their own to inputs drawn from bounded sets      *)
(***************************************************************************)
PureExecutables ==
    {Expression(t) : t \in StringsUpTo(1)} \cup {Package("left-pad"), Package("vm2")}
        \cup {OtherExecutable}

InitPure ==
    /\ path = {node, npm}
    /\ disk = [d \in Dirs |-> NoDir]
    /\ procs = [p \in Pids |-> NoProcess]
    /\ pc = [c \in Callers |-> "idle"]
    /\ call = [c \in Callers |-> NoCall]
    /\ script = [c \in Callers |-> NoScript]
    /\ result = [c \in Callers |-> NoResult]
    /\ closeErr = [c \in Callers |-> FALSE]
    /\ nextDir = 1
    /\ nextPid = 1
    /\ http = HttpIdle
    /\ \/ \E s \in StringsUpTo(MaxLen) :
             pure = [PureIdle EXCEPT !.fn = "escapeJSON", !.str = s]
       \/ \E b \in Bags :
             pure = [PureIdle EXCEPT !.fn = "sanitizeVariables", !.bag = b]
       \/ \E e \in PureExecutables :
             pure = [PureIdle EXCEPT !.fn = "getDependencies", !.exe = e]

ApplyEscapeJSON ==
    /\ pure.fn = "escapeJSON" /\ ~pure.done
    /\ pure' = [pure EXCEPT !.done = TRUE, !.strOut = escapeJSON(pure.str)]
    /\ UNCHANGED <<path, disk, procs, pc, call, script, result, closeErr, nextDir, nextPid, http>>

ApplySanitizeVariables ==
    /\ pure.fn = "sanitizeVariables" /\ ~pure.done
    /\ pure' = [pure EXCEPT !.done = TRUE, !.bagOut = sanitizeVariables(pure.bag)]
    /\ UNCHANGED <<path, disk, procs, pc, call, script, result, closeErr, nextDir, nextPid, http>>

ApplyGetDependencies ==
    /\ pure.fn = "getDependencies" /\ ~pure.done
    /\ pure' = [pure EXCEPT !.done = TRUE, !.depOut = getDependencies(pure.exe)]
    /\ UNCHANGED <<path, disk, procs, pc, call, script, result, closeErr, nextDir, nextPid, http>>

NextPure == ApplyEscapeJSON \/ ApplySanitizeVariables \/ ApplyGetDependencies

SpecPure == InitPure /\ [][NextPure]_vars

(***************************************************************************)
(* EventTemplateHandler                                                    *)
(***************************************************************************)
StatusBadRequest == "400"
StatusOK == "200"

Response(status, res, format, message) ==
    [status |-> status, Result |-> res, Format |-> format, Error |-> message]

\* EvaluateTemplateRequest.Validate
Validate(req) ==
    IF req.Object = "nil" THEN "'object' is required field"
    ELSE IF req.Expression = "" THEN "'expression' is required field"
    ELSE NoError

\* what a call of evaluate or evaluateReformatted can come to: the three values
\* it returns, or a panic that leaves it (escaped); engine tells whether the
\* template engine raised a panic
EvaluateOutcome(res, format, err, engine, escaped) ==
    [result |-> res, format |-> format, err |-> err, engine |-> engine,
     escaped |-> escaped]

\* evaluate(req): SmartParse, ProcessEvent, ToJSON under a deferred recover that
\* turns a panic of any of them into result = "" and an error
evaluate(req) ==
    {EvaluateOutcome("", "", "error parsing template", FALSE, FALSE),
     EvaluateOutcome("", "", "Error: panic", TRUE, FALSE),
     EvaluateOutcome("", "format", "error executing template", FALSE, FALSE),
     EvaluateOutcome("", "format", "json error", FALSE, FALSE),
     EvaluateOutcome("json", "format", NoError, FALSE, FALSE)}

\* evaluateReformatted(req): NewTableNameExtractor, Extract, no recover
evaluateReformatted(req) ==
    {EvaluateOutcome("", "", "extractor error", FALSE, FALSE),
     EvaluateOutcome("", "", NoError, TRUE, TRUE),
     EvaluateOutcome("", "format", "extract error", FALSE, FALSE),
     EvaluateOutcome("table", "format", NoError, FALSE, FALSE)}

HttpBodies == {"malformed", "ok"}
HttpObjects == {"nil", "empty", "object"}
HttpExpressions == {"", "{{.a}}", "{{.b}}"}

InitHandler ==
    /\ path = {node, npm}
    /\ disk = [d \in Dirs |-> NoDir]
    /\ procs = [p \in Pids |-> NoProcess]
    /\ pc = [c \in Callers |-> "idle"]
    /\ call = [c \in Callers |-> NoCall]
    /\ script = [c \in Callers |-> NoScript]
    /\ result = [c \in Callers |-> NoResult]
    /\ closeErr = [c \in Callers |-> FALSE]
    /\ nextDir = 1
    /\ nextPid = 1
    /\ pure = PureIdle
    /\ \E b \in HttpBodies, o \in HttpObjects, e \in HttpExpressions, r \in BOOLEAN :
          http = [HttpIdle EXCEPT !.pc = "bind", !.body = b, !.Object = o,
                                  !.Expression = e, !.Reformat = r]

\* c.BindJSON(req)
BindJSON ==
    /\ http.pc = "bind"
    /\ http' = IF http.body = "malformed"
               THEN [http EXCEPT !.pc = "done",
                                 !.responses = Append(@, Response(StatusBadRequest, "", "",
                                                                  "Failed to parse body"))]
               ELSE [http EXCEPT !.pc = "validate"]
    /\ UNCHANGED <<path, disk, procs, pc, call, script, result, closeErr, nextDir, nextPid, pure>>

\* req.Validate()
ValidateRequest ==
    /\ http.pc = "validate"
    /\ http' = IF Validate(http) # NoError
               THEN [http EXCEPT !.pc = "done",
                                 !.responses = Append(@, Response(StatusBadRequest, "", "",
                                                                  Validate(http)))]
               ELSE [http EXCEPT !.pc = "evaluate"]
    /\ UNCHANGED <<path, disk, procs, pc, call, script, result, closeErr, nextDir, nextPid, pure>>

\* result, format, err = evaluateReformatted(req) or evaluate(req)
Evaluation ==
    /\ http.pc = "evaluate"
    /\ \E o \in (IF http.Reformat THEN evaluateReformatted(http) ELSE evaluate(http)) :
          http' = [http EXCEPT !.pc = IF o.escaped THEN "escaped" ELSE "respond",
                               !.result = o.result, !.format = o.format, !.err = o.err,
                               !.engineCalled = TRUE, !.panicked = o.engine]
    /\ UNCHANGED <<path, disk, procs, pc, call, script, result, closeErr, nextDir, nextPid, pure>>

\* c.JSON(http.StatusBadRequest, ...) when err != nil, c.JSON(http.StatusOK, ...) otherwise
Respond400Or200 ==
    /\ http.pc = "respond"
    /\ http' = [http EXCEPT
                   !.pc = "done",
                   !.responses =
                       Append(@, IF http.err # NoError
                                 THEN Response(StatusBadRequest, http.result, http.format, http.err)
                                 ELSE Response(StatusOK, http.result, http.format, ""))]
    /\ UNCHANGED <<path, disk, procs, pc, call, script, result, closeErr, nextDir, nextPid, pure>>

NextHandler == BindJSON \/ ValidateRequest \/ Evaluation \/ Respond400Or200

SpecHandler == InitHandler /\ [][NextHandler]_vars

(***************************************************************************)
(* Properties                                                              *)
(***************************************************************************)
Live == {"ready", "invoking", "closed"}
AtRest == {"idle", "failed", "disposed"} \cup Live
ExternalDependencies(d) == disk[d].deps \ DOMAIN packages
SetupSteps ==
    <<"lookPath", "purge", "mkdir", "createPackageJSON", "getDependencies", "install",
      "createScriptFile", "getExpression", "render", "govern">>
InstallFailed(c) ==
    /\ pc[c] = "failed"
    /\ Len(call[c].err) > 0
    /\ Head(call[c].err) = "install node modules"

\* C1: when the install step fails, CreateScript returns an error and no handle,
\* and the directory this attempt created is gone from the disk.
C1_InstallFailureLeavesNoDirectory ==
    \A c \in Callers :
        InstallFailed(c) => script[c] = NoScript /\ ~disk[call[c].dir].exists

\* C2: for a Package whose manifest (read successfully after install) lists zero,
\* or two or more, dependencies besides the harness-support packages, user-code
\* determination fails with an error and nothing further happens: only the
\* runtime manifest was opened, no harness is rendered, no process is spawned.
C2_AmbiguousDependencyFails ==
    \A c \in Callers :
        (/\ call[c].executable.kind = "Package"
         /\ call[c].opened # <<>>
         /\ disk[call[c].dir].manifest
         /\ Cardinality(ExternalDependencies(call[c].dir)) # 1
         /\ ~(pc[c] = "failed"
              /\ call[c].err = <<"get executable expression", "read runtime package.json">>))
        => /\ pc[c] = "failed"
           /\ call[c].err # <<>>
           /\ call[c].opened = <<"package.json">>
           /\ disk[call[c].dir].script.state # "written"
           /\ script[c] = NoScript

\* C3: whenever no CreateScript call is under way, every provisioned directory on
\* disk is owned by exactly one handle that is not yet disposed, every running
\* process belongs to such a handle, and a failed call has left no directory.
C3_NoLeakedDirectoryOrProcess ==
    (\A c \in Callers : pc[c] \in AtRest) =>
        /\ \A d \in Dirs :
              (disk[d].exists /\ ~disk[d].stale) =>
                  Cardinality({c \in Callers : pc[c] \in Live /\ script[c].dir = d}) = 1
        /\ \A p \in Pids :
              procs[p].running =>
                  Cardinality({c \in Callers : pc[c] \in Live /\ script[c].governor = p}) = 1
        /\ \A c \in Callers :
              (pc[c] = "failed" /\ call[c].dir # 0) =>
                  ~(disk[call[c].dir].exists /\ ~disk[call[c].dir].stale)

C5_EscapeRoundTrips ==
    (pure.fn = "escapeJSON" /\ pure.done) =>
        Decode(pure.strOut) = [ok |-> TRUE, val |-> pure.str]

\* C6: sanitizeVariables returns a bag without the keys whose value is a function
\* and with every other key of the input, null values included, at an equal value.
C6_SanitizeKeepsAllButFunctions ==
    (pure.fn = "sanitizeVariables" /\ pure.done) =>
        /\ ~pure.bagOut.panic
        /\ DOMAIN pure.bagOut.bag = {k \in DOMAIN pure.bag : pure.bag[k] # "func"}
        /\ \A k \in DOMAIN pure.bagOut.bag : pure.bagOut.bag[k] = pure.bag[k]

\* C7: getDependencies returns no package and no error for an Expression, exactly
\* the package name and no error for a Package, and an error for anything else.
C7_GetDependenciesByVariant ==
    (pure.fn = "getDependencies" /\ pure.done) =>
        CASE pure.exe.kind = "Expression" ->
               pure.depOut.list = <<>> /\ pure.depOut.err = NoError
          [] pure.exe.kind = "Package" ->
               /\ Len(pure.depOut.list) = 1
               /\ pure.depOut.list[1] = pure.exe.name
               /\ pure.depOut.err = NoError
          [] OTHER -> pure.depOut.err = "unrecognized script executable"

C7_PackageResolved ==
    pure.fn = "getDependencies" /\ pure.done /\ pure.exe.kind = "Package"

\* C8: a caller holds a handle only after provisioning, install, rendering (the
\* harness file written and closed) and spawn all succeeded, in that order; a
\* call that failed or panicked yields no handle, and an invocation is under way
\* only on a completed setup.
C8_HandleOnlyAfterSetup ==
    \A c \in Callers :
        /\ script[c] # NoScript =>
              /\ pc[c] \in Live \cup {"disposed"}
              /\ SubSeq(call[c].steps, 1, Len(SetupSteps)) = SetupSteps
              /\ executableScriptName \notin call[c].open
        /\ pc[c] \in {"ready", "invoking"} =>
              /\ script[c] # NoScript
              /\ disk[script[c].dir].script.state = "written"
              /\ procs[script[c].governor].dir = script[c].dir
        /\ pc[c] \in {"failed", "panicked"} => script[c] = NoScript

C8_HandleReturned ==
    \E c \in Callers : pc[c] = "ready" /\ script[c] # NoScript

\* C9: when node or npm is not on the search path, CreateScript fails at once with
\* an error naming the missing executable: no directory name is drawn, nothing
\* is purged, created, written or installed, and no process is spawned.
C9_MissingRuntimeFailsFirst ==
    (node \notin path \/ npm \notin path) =>
        /\ nextDir = 1 /\ nextPid = 1
        /\ \A d \in Dirs : disk[d] \in {NoDir, StaleDir}
        /\ \A p \in Pids : procs[p] = NoProcess
        /\ \A c \in Callers :
              /\ pc[c] \in {"idle", "failed"}
              /\ pc[c] = "failed" =>
                    /\ call[c].err =
                          <<"is not in $PATH", IF node \notin path THEN node ELSE npm>>
                    /\ call[c].dir = 0 /\ call[c].steps = <<>> /\ call[c].npmRuns = 0
                    /\ script[c] = NoScript

C9_NpmMissing ==
    \E c \in Callers : pc[c] = "failed" /\ node \in path /\ npm \notin path

\* C10: two handles own distinct directories and distinct processes, the request
\* a handle has in flight sits in its own process, and a run returns the answer
\* of the handle's own harness to the event that was sent on that handle.
C10_HandlesIndependent ==
    /\ \A c1, c2 \in Callers :
          (c1 # c2 /\ pc[c1] \in Live /\ pc[c2] \in Live) =>
              /\ script[c1].dir # script[c2].dir
              /\ script[c1].governor # script[c2].governor
    /\ \A c \in Callers :
          /\ pc[c] = "invoking" =>
                /\ procs[script[c].governor].req = result[c].event
                /\ procs[script[c].governor].dir = script[c].dir
                /\ call[c].dir = script[c].dir
          /\ (pc[c] = "ready" /\ result[c].event # NoEvent) =>
                /\ result[c].code = disk[script[c].dir].script.Executable
                /\ result[c].code =
                      escapeJSON(ExpressionPrefix \o call[c].executable.text \o ExpressionSuffix)
                   \/ call[c].executable.kind # "Expression"

C10_TwoHandlesAnswered ==
    \E c1, c2 \in Callers :
        /\ c1 # c2
        /\ pc[c1] = "ready" /\ pc[c2] = "ready"
        /\ call[c1].executable = call[c2].executable
        /\ call[c1].executable.kind = "Expression"
        /\ result[c1].event = "e1" /\ result[c2].event = "e2"


\* the phase a failed call was in, from the statements it had completed and the
\* files getExpression had opened
FailedPhase(c) ==
    LET n == Len(call[c].steps)
        files == Len(call[c].opened)
    IN CASE n = 1 -> {"purge"}
         [] n = 2 -> {"create-dir"}
         [] n = 3 -> {"write-manifest"}
         [] n = 5 -> {"install"}
         [] n = 7 /\ files = 1 -> {"read-manifest"}
         [] n = 7 /\ files = 2 -> {"read-manifest", "empty-entrypoint"}
         [] n = 7 /\ files = 3 -> {"read-entrypoint"}
         [] OTHER -> {"other"}

\* the phase an error of CreateScript identifies
ErrorPhase(err) ==
    CASE err = <<>> -> "none"
      [] Head(err) = "purge temp dir" -> "purge"
      [] Head(err) = "create temp dir" -> "create-dir"
      [] Head(err) = "create package.json" -> "write-manifest"
      [] Head(err) = "install node modules" -> "install"
      [] Head(err) = "get executable expression" /\ Len(err) > 1 ->
           (CASE err[2] \in {"read runtime package.json", "read package.json main field"}
                   -> "read-manifest"
              [] err[2] \in {"open main file", "read main file"} -> "read-entrypoint"
              [] err[2] = "package.json main is empty" -> "empty-entrypoint"
              [] OTHER -> "other")
      [] OTHER -> "other"

\* C11: a failure of the purge, the directory creation, the manifest write, the
\* install, a manifest read or the entry-point read makes CreateScript return a
\* non-nil error that identifies that phase, and no error text identifies two
\* phases.
C11_ErrorIdentifiesPhase ==
    \A c \in Callers :
        (pc[c] = "failed" /\ FailedPhase(c) # {"other"}) =>
            /\ call[c].err # <<>>
            /\ script[c] = NoScript
            /\ ErrorPhase(call[c].err) \in FailedPhase(c)

C11_EntryPointReadFailed ==
    \E c \in Callers : pc[c] = "failed" /\ ErrorPhase(call[c].err) = "read-entrypoint"


\* C12: the handler writes exactly one response per request: 400 when the body
\* does not parse, when object is missing or expression is empty (the engine is
\* then never called), or when the evaluation returned an error; 200 with the
\* result and the format otherwise.
C12_OneResponsePerRequest ==
    http.pc \in {"done", "escaped"} =>
        /\ Len(http.responses) = 1
        /\ LET r == http.responses[1]
           IN IF http.body = "malformed" \/ Validate(http) # NoError
              THEN r.status = StatusBadRequest /\ ~http.engineCalled
              ELSE IF http.err # NoError
              THEN r.status = StatusBadRequest
              ELSE /\ r.status = StatusOK
                   /\ r.Result = http.result
                   /\ r.Format = http.format

\* C18: for a request that passes validation, a panic of the template engine
\* ends in a 400 response with an empty result and never leaves the handler,
\* with reformat false and with reformat true.
C18_PanicBecomesBadRequest ==
    http.panicked =>
        /\ http.pc # "escaped"
        /\ http.pc = "done" =>
              /\ Len(http.responses) = 1
              /\ http.responses[1].status = StatusBadRequest
              /\ http.responses[1].Result = ""


Range(seq) == {seq[i] : i \in DOMAIN seq}

\* C13: dependency resolution comes before the directory is created: a directory
\* exists for a call only once its dependencies are resolved, and a call that
\* failed in the resolution has no directory and no manifest on disk.
C13_ResolveBeforeDirectory ==
    \A c \in Callers :
        /\ "mkdir" \in Range(call[c].steps) => "getDependencies" \in Range(call[c].steps)
        /\ (pc[c] = "failed" /\ call[c].err # <<>> /\ Head(call[c].err) = "get dependencies") =>
              /\ ~disk[call[c].dir].exists
              /\ ~disk[call[c].dir].manifest

\* C14: a call that reaches the install step runs npm exactly once, with the
\* arguments install, every harness-support package as name@version and then
\* the resolved packages, for an Expression as for a Package; a timeout or a
\* non-zero exit of that run makes CreateScript fail.
C14_OneInstallRun ==
    \A c \in Callers :
        /\ call[c].npmRuns <= 1
        /\ "install" \in Range(call[c].steps) => call[c].npmRuns = 1
        /\ call[c].npmExit \in {"non-zero exit", "timeout"} =>
              /\ InstallFailed(c)
              /\ call[c].npmRuns = 1
              /\ script[c] = NoScript
        /\ call[c].npmArgs # <<>> =>
              LET modules == getDependencies(call[c].executable).list
                  args == call[c].npmArgs
              IN /\ Len(args) = 1 + Cardinality(DOMAIN packages) + Len(modules)
                 /\ Head(args) = "install"
                 /\ {args[i] : i \in 2..(1 + Cardinality(DOMAIN packages))} =
                       {<<"node-fetch", "@", "2">>, <<"vm2", "@", "3">>}
                 /\ SubSeq(args, 2 + Cardinality(DOMAIN packages), Len(args)) = modules

C14_InstallTimedOut ==
    \E c \in Callers :
        /\ call[c].npmExit = "timeout"
        /\ call[c].executable.kind = "Package"
        /\ call[c].npmArgs # <<>>

\* C15: for a Package with exactly one dependency besides the harness-support
\* packages, an empty main field in that dependency's manifest makes user-code
\* determination fail with the empty-entry-point error without opening the
\* entry-point file; with a non-empty main the user code is the text of the
\* entry-point file, unchanged.
C15_EntryPointOfPackage ==
    \A c \in Callers :
        (/\ call[c].executable.kind = "Package"
         /\ call[c].dir # 0
         /\ disk[call[c].dir].manifest
         /\ Cardinality(ExternalDependencies(call[c].dir)) = 1) =>
            /\ call[c].main = "" =>
                  /\ pc[c] = "failed"
                  /\ ErrorPhase(call[c].err) = "empty-entrypoint"
                  /\ "main file" \notin Range(call[c].opened)
            /\ (call[c].main = MainField /\ pc[c] = "render") =>
                  /\ call[c].expression \in MainFileTexts
                  /\ call[c].opened[Len(call[c].opened)] = "main file"

C15_EmptyMainRead ==
    \E c \in Callers : call[c].main = "" /\ pc[c] = "failed"

\* C16: the directory name is purged before it is created: once the directory is
\* created, and when the manifest is written, it exists and holds nothing of a
\* directory that was there before; a failed purge ends the call before the
\* directory is created.
C16_PurgeBeforeCreate ==
    \A c \in Callers :
        /\ pc[c] \in {"createPackageJSON", "getDependencies", "install", "createScriptFile",
                      "getExpression", "render", "govern"} =>
              /\ disk[call[c].dir].exists
              /\ ~disk[call[c].dir].stale
              /\ SubSeq(call[c].steps, 1, 3) = <<"lookPath", "purge", "mkdir">>
        /\ pc[c] \in {"getDependencies", "install"} => disk[call[c].dir].manifest
        /\ (pc[c] = "failed" /\ ErrorPhase(call[c].err) = "purge") =>
              /\ call[c].steps = <<"lookPath">>
              /\ disk[call[c].dir] \in {NoDir, StaleDir}

C16_ManifestInFirstDirectory ==
    \E c \in Callers :
        /\ pc[c] = "getDependencies"
        /\ \A d \in Dirs : call[c].dir <= d
        /\ disk[call[c].dir].manifest

\* C17: when CreateScript returns, with a handle or with an error, every file it
\* opened or created during the call is closed.
C17_FilesClosedOnReturn ==
    \A c \in Callers : pc[c] \in {"failed", "ready"} => call[c].open = {}

====
